---- MODULE Spec2Model ----
(***************************************************************************)
(* Offline write queue and synchronisation engine of the MeatSafe mobile   *)
(* app: src/frontend/src/store/offlineQueue.ts (OfflineQueueProvider) and  *)
(* the NetworkBanner that reads it.                                        *)
(*                                                                         *)
(* JavaScript runs the provider on one thread: every callback and every    *)
(* continuation after an `await` runs to its next `await` without          *)
(* interruption, so each action below is one such run.  The asynchronous   *)
(* parts (AsyncStorage reads and writes, the createSeizure HTTP call) are  *)
(* requests in flight that the environment completes in any order.         *)
(***************************************************************************)
EXTENDS Integers, Sequences, FiniteSets, TLC

(* ------------------------------ bounds -------------------------------- *)
MaxEnq == 3        \* addPending calls in one behaviour
MaxPasses == 2     \* syncAll passes suspended on a remote call at once
MaxWrites == 2     \* AsyncStorage.setItem calls in flight at once
MaxRestarts == 1   \* process restarts in one behaviour

\* The behaviours are explored in scopes.  A scope fixes, for one behaviour,
\* how far each bound is used and which events of the environment occur:
\*   collide   Date.now() and Math.random() may repeat an earlier localId
\*   faults    AsyncStorage.getItem / setItem may reject
\*   lateLoad  the UI may call addPending before the startup load has ended
\*   corrupt   the value under STORAGE_KEY may be damaged or replaced by
\*             something the provider did not write
\*   submits   records the inspector submits on NewSeizureScreen
\* Every behaviour of a scope is a behaviour of the program.
Scopes ==
  { [name |-> "batch", enq |-> MaxEnq, passes |-> 1, writes |-> 1,
     restarts |-> 0, collide |-> FALSE, faults |-> FALSE, lateLoad |-> FALSE,
     corrupt |-> FALSE, submits |-> 0],
    [name |-> "overlap", enq |-> 2, passes |-> MaxPasses, writes |-> 1,
     restarts |-> 0, collide |-> FALSE, faults |-> FALSE, lateLoad |-> FALSE,
     corrupt |-> FALSE, submits |-> 0],
    [name |-> "storage", enq |-> 2, passes |-> 1, writes |-> MaxWrites,
     restarts |-> 1, collide |-> FALSE, faults |-> TRUE, lateLoad |-> TRUE,
     corrupt |-> FALSE, submits |-> 0],
    [name |-> "restart", enq |-> 2, passes |-> 1, writes |-> 1,
     restarts |-> MaxRestarts, collide |-> FALSE, faults |-> TRUE,
     lateLoad |-> TRUE, corrupt |-> FALSE, submits |-> 0],
    [name |-> "ids", enq |-> 3, passes |-> 1, writes |-> 1,
     restarts |-> 0, collide |-> TRUE, faults |-> FALSE, lateLoad |-> FALSE,
     corrupt |-> FALSE, submits |-> 0],
    [name |-> "reorder", enq |-> 2, passes |-> 1, writes |-> MaxWrites,
     restarts |-> 0, collide |-> FALSE, faults |-> FALSE, lateLoad |-> FALSE,
     corrupt |-> FALSE, submits |-> 0],
    [name |-> "corrupt", enq |-> 1, passes |-> 1, writes |-> 1,
     restarts |-> 0, collide |-> FALSE, faults |-> TRUE, lateLoad |-> TRUE,
     corrupt |-> TRUE, submits |-> 0],
    [name |-> "screen", enq |-> 1, passes |-> 1, writes |-> 1,
     restarts |-> 0, collide |-> FALSE, faults |-> FALSE, lateLoad |-> FALSE,
     corrupt |-> FALSE, submits |-> 2] }

(* ------------------------------ inputs -------------------------------- *)
ConnVals == {"true", "false", "null"} \* NetInfoState.isConnected, .isInternetReachable

Null == [null |-> TRUE]           \* AsyncStorage.getItem on a missing key
Undefined == "undefined"          \* a key whose value is undefined
SyncError == "Erreur de synchronisation"

\* Damaged values of the Durable Store.  BadSyntax is a text JSON.parse throws
\* on (a truncated write).  ForeignShape is the text `[{}]`: JSON.parse
\* accepts it, and its one element has no localId, payload or status (each
\* reads as undefined, written 0 for the id and the payload).
BadSyntax == [bad |-> "syntax"]
ForeignShape ==
  [json |-> <<[localId |-> 0, payload |-> 0, status |-> "undefined"]>>]
CorruptTexts == {BadSyntax, ForeignShape}

VARIABLES
  scope,      \* the scope of this behaviour (never changes)
  items,      \* useState<OfflineSeizure[]>: the in-memory list
  isOnline,   \* useState(true)
  stored,     \* AsyncStorage value under STORAGE_KEY: Null or a JSON text
  writes,     \* AsyncStorage.setItem calls in flight
  loadState,  \* loadFromStorage: "reading" (getItem in flight), "read", "done"
  loadBuf,    \* the value getItem resolved with
  passes,     \* syncAll passes suspended on `await createSeizure(...)`, each
              \* [snap: its currentItems, idx: the position awaited,
              \*  by: what called syncAll, called: the positions of snap it
              \*  called createSeizure for so far, in order, enqAt: the
              \*  number of addPending calls made before it started]
  callLog,    \* remote: the payloads createSeizure was called with, in order
  accepted,   \* remote: the entries whose POST /seizures was accepted, in order
  enqLog,     \* history: the items addPending created, in order, each with
              \* the number of restarts before it (life)
  nRestart,   \* history: process restarts so far
  submitLog   \* history: the records submitted on NewSeizureScreen, in order,
              \* each with what became of it ("created" or "error")

vars == <<scope, items, isOnline, stored, writes, loadState, loadBuf, passes,
          callLog, accepted, enqLog, nRestart,
                 submitLog>>

(* --------------------------- pure functions --------------------------- *)

\* const newItem = { localId, payload, status: "pending" }  (no error key)
newItem(localId, payload) ==
  [localId |-> localId, payload |-> payload, status |-> "pending"]

\* `local-${Date.now()}-${Math.random().toString(36).slice(2, 8)}`: a string
\* built from the clock and a random suffix.  Nothing makes it differ from the
\* strings built before: it is one of those, or a new one.  The strings are
\* named 1, 2, ... in the order of their first appearance; `used` is the
\* number of distinct strings built so far.
localIdChoices(used) == IF scope.collide THEN 1..(used + 1) ELSE {used + 1}

\* Mutant of addPendingNext: the new entry is put first ([newItem, ...prev]).
addPendingFront(prev, item) == <<item>> \o prev

\* addPending's updater: [...prev, newItem]
addPendingNext(prev, item) == Append(prev, item)

\* Mutant of markSyncedNext: the filter keeps the entry instead of dropping it
\* (=== for !==).
markSyncedKeep(prev, localId) ==
  SelectSeq(prev, LAMBDA i : i.localId = localId)

\* Mutant of markSyncedNext: the entry is kept and flagged with the status
\* "synced" of OfflineSeizureStatus instead of being filtered out.
markSyncedFlag(prev, localId) ==
  [k \in DOMAIN prev |->
     IF prev[k].localId = localId
       THEN [prev[k] EXCEPT !.status = "synced"]
       ELSE prev[k]]

\* Mutant of markSyncedNext: only the first entry with the id is taken out
\* (findIndex and splice for filter).
markSyncedOnce(prev, localId) ==
  LET S == {k \in DOMAIN prev : prev[k].localId = localId}
      f == IF S = {} THEN 0 ELSE CHOOSE k \in S : \A m \in S : k <= m
  IN [j \in 1..(Len(prev) - (IF S = {} THEN 0 ELSE 1)) |->
        IF f = 0 \/ j < f THEN prev[j] ELSE prev[j + 1]]

\* markSynced's updater: prev.filter((i) => i.localId !== localId)
markSyncedNext(prev, localId) ==
  SelectSeq(prev, LAMBDA i : i.localId # localId)

\* Mutant of markFailedNext: the entry is rebuilt without its payload
\* ({localId, status: "failed", error}); 0 stands for the missing payload.
markFailedNoPayload(prev, localId, error) ==
  [k \in DOMAIN prev |->
     IF prev[k].localId = localId
       THEN [localId |-> prev[k].localId, payload |-> 0,
             status |-> "failed", error |-> error]
       ELSE prev[k]]

\* Mutant of markFailedNext: the error is stored but the status is left as
\* it was ({...i, error}).
markFailedErrorOnly(prev, localId, error) ==
  [k \in DOMAIN prev |->
     IF prev[k].localId = localId
       THEN [localId |-> prev[k].localId, payload |-> prev[k].payload,
             status |-> prev[k].status, error |-> error]
       ELSE prev[k]]

\* Mutant of markFailedNext: the map has no test of the localId, so every
\* entry is marked.
markFailedAll(prev, localId, error) ==
  [k \in DOMAIN prev |->
     [localId |-> prev[k].localId, payload |-> prev[k].payload,
      status |-> "failed", error |-> error]]

\* markFailed's updater:
\*   prev.map((i) => i.localId === localId ? {...i, status: "failed", error} : i)
markFailedNext(prev, localId, error) ==
  [k \in DOMAIN prev |->
     IF prev[k].localId = localId
       THEN [localId |-> prev[k].localId, payload |-> prev[k].payload,
             status |-> "failed", error |-> error]
       ELSE prev[k]]

\* JSON.stringify leaves out a key whose value is undefined (markFailed called
\* without its optional error writes {..., error: undefined}).
dropUndefined(i) ==
  IF "error" \in DOMAIN i /\ i.error = Undefined
    THEN [k \in DOMAIN i \ {"error"} |-> i[k]]
    ELSE i

\* JSON.stringify(next): the text of the array, element by element.
JSONstringify(next) == [json |-> [k \in DOMAIN next |-> dropUndefined(next[k])]]

\* JSON.parse(stored): the array the text denotes.
JSONparse(text) == text.json

\* JSON.parse(stored) throws a SyntaxError.
JSONparseThrows(text) == "bad" \in DOMAIN text

\* Mutant of pendingCount: every entry is counted (items.length).
pendingCountAll(list) == Len(list)

\* NetworkBanner: items.filter((i) => i.status === "pending").length
pendingCount(list) == Len(SelectSeq(list, LAMBDA i : i.status = "pending"))

\* Mutant of NetworkBanner: the early return tests the count only
\* (if (pendingCount === 0) return null), so an idle offline device shows
\* nothing.
NetworkBannerIdleHidden(online, list) ==
  IF pendingCount(list) = 0
    THEN [shown |-> FALSE, message |-> "none", count |-> 0]
  ELSE IF online
    THEN [shown |-> TRUE, message |-> "syncing", count |-> pendingCount(list)]
    ELSE [shown |-> TRUE, message |-> "offline", count |-> 0]

\* NetworkBanner(): null when online with nothing pending; otherwise a view
\* whose text is "Synchronisation en cours... (N en attente)" when online and
\* "Mode hors-ligne - ..." (no count) when offline.
NetworkBanner(online, list) ==
  IF online /\ pendingCount(list) = 0
    THEN [shown |-> FALSE, message |-> "none", count |-> 0]
  ELSE IF online
    THEN [shown |-> TRUE, message |-> "syncing", count |-> pendingCount(list)]
    ELSE [shown |-> TRUE, message |-> "offline", count |-> 0]

\* Mutant of nextPending: an off-by-one, the entry at `from` is never looked
\* at.
nextPendingSkip(currentItems, from) ==
  LET S == {j \in (from + 1)..Len(currentItems) :
              currentItems[j].status = "pending"}
  IN IF S = {} THEN Len(currentItems) + 1
     ELSE CHOOSE j \in S : \A m \in S : j <= m

\* Mutant of nextPending: the loop runs over the list from its end.
nextPendingLast(currentItems, from) ==
  LET S == {j \in from..Len(currentItems) : currentItems[j].status = "pending"}
  IN IF S = {} THEN Len(currentItems) + 1
     ELSE CHOOSE j \in S : \A m \in S : m <= j

\* The for loop of syncAll from position `from`: entries whose status is not
\* "pending" are skipped; the result is the position of the next entry the
\* loop awaits createSeizure for, or Len + 1 when the loop ends.
RECURSIVE nextPending(_, _)
nextPending(currentItems, from) ==
  IF from > Len(currentItems) THEN Len(currentItems) + 1
  ELSE IF currentItems[from].status # "pending"
    THEN nextPending(currentItems, from + 1)
    ELSE from

\* Mutant of onlineOf: reachability is ignored (!!state.isConnected), so a
\* captive portal counts as online.
onlineOfConnected(isConnected, isInternetReachable) ==
  isConnected = "true"

\* const online = !!state.isConnected && !!state.isInternetReachable
onlineOf(isConnected, isInternetReachable) ==
  (isConnected = "true") /\ (isInternetReachable = "true")

(* ------------------------------- state -------------------------------- *)

\* Mutant of Init: the provider starts pessimistic (useState(false)).
InitOffline ==
  /\ scope \in Scopes
  /\ items = <<>>
  /\ isOnline = FALSE
  /\ stored = Null
  /\ writes = {}
  /\ loadState = "reading"
  /\ loadBuf = Null
  /\ passes = <<>>
  /\ callLog = <<>>
  /\ accepted = <<>>
  /\ enqLog = <<>>
  /\ nRestart = 0
  /\ submitLog = <<>>

Init ==
  /\ scope \in Scopes
  /\ items = <<>>
  /\ isOnline = TRUE
  /\ stored = Null
  /\ writes = {}
  /\ loadState = "reading"
  /\ loadBuf = Null
  /\ passes = <<>>
  /\ callLog = <<>>
  /\ accepted = <<>>
  /\ enqLog = <<>>
  /\ nRestart = 0
  /\ submitLog = <<>>

\* What the remote sees of one createSeizure(item.payload) call.
callOf(item) == [localId |-> item.localId, payload |-> item.payload]

\* Mutant of persist: the list of the last render is written, not `next`.
persistStale(next) == writes \cup {JSONstringify(items)}

\* persist(next): JSON.stringify(next) is evaluated at once, setItem is not awaited
\* by the caller (`void persist(next)`), so the write stays in flight.
persist(next) == writes \cup {JSONstringify(next)}

\* Bound on the writes in flight.
CanPersist(next) ==
  JSONstringify(next) \in writes \/ Cardinality(writes) < scope.writes

RemoveAt(s, k) == [j \in 1..(Len(s) - 1) |-> IF j < k THEN s[j] ELSE s[j + 1]]

(* ------------------------------ actions ------------------------------- *)

\* AsyncStorage.setItem resolves: the text is now the stored value.
WriteLand(w) ==
  /\ w \in writes
  /\ stored' = w
  /\ writes' = writes \ {w}
  /\ UNCHANGED <<scope, items, isOnline, loadState, loadBuf, passes, callLog,
                 accepted, enqLog, nRestart,
                 submitLog>>

\* Mutant of WriteFail: a rejected write undoes the mutation in memory (the
\* list goes back to what the store holds).
WriteFailRollback(w) ==
  /\ scope.faults
  /\ w \in writes
  /\ writes' = writes \ {w}
  /\ items' = IF stored = Null THEN <<>> ELSE JSONparse(stored)
  /\ UNCHANGED <<scope, isOnline, stored, loadState, loadBuf, passes,
                 callLog, accepted, enqLog, nRestart,
                 submitLog>>

\* AsyncStorage.setItem rejects: persist's catch swallows the error.
WriteFail(w) ==
  /\ scope.faults
  /\ w \in writes
  /\ writes' = writes \ {w}
  /\ UNCHANGED <<scope, items, isOnline, stored, loadState, loadBuf, passes,
                 callLog, accepted, enqLog, nRestart,
                 submitLog>>

\* The value under STORAGE_KEY is damaged, before the startup load reads it.
StorageCorrupt(text) ==
  /\ scope.corrupt
  /\ loadState = "reading"
  /\ stored \notin CorruptTexts
  /\ stored' = text
  /\ UNCHANGED <<scope, items, isOnline, writes, loadState, loadBuf, passes,
                 callLog, accepted, enqLog, nRestart,
                 submitLog>>

\* loadFromStorage, started by the mount effect: getItem resolves with the
\* stored value.
LoadRead ==
  /\ loadState = "reading"
  /\ loadBuf' = stored
  /\ loadState' = "read"
  /\ UNCHANGED <<scope, items, isOnline, stored, writes, passes, callLog,
                 accepted, enqLog, nRestart,
                 submitLog>>

\* loadFromStorage: getItem rejects, the catch swallows the error.
LoadFail ==
  /\ scope.faults
  /\ loadState = "reading"
  /\ loadState' = "done"
  /\ UNCHANGED <<scope, items, isOnline, stored, writes, loadBuf, passes,
                 callLog, accepted, enqLog, nRestart,
                 submitLog>>

\* loadFromStorage after the await: if (stored) setItems(JSON.parse(stored));
\* an error thrown by JSON.parse is caught and ignored.
LoadApply ==
  /\ loadState = "read"
  /\ items' = IF loadBuf # Null /\ ~JSONparseThrows(loadBuf)
                THEN JSONparse(loadBuf)
                ELSE items
  /\ loadState' = "done"
  /\ UNCHANGED <<scope, isOnline, stored, writes, loadBuf, passes, callLog,
                 accepted, enqLog, nRestart,
                 submitLog>>

\* The distinct localId strings built so far.
usedIds == Cardinality({enqLog[k].localId : k \in DOMAIN enqLog})

\* The payload of the n-th addPending call.  The queue never looks into a
\* payload, so the payloads are named by the order in which the inspector
\* submits them.
payloadOf(n) == n

\* What a call returns to its caller: a value, or nothing (undefined).
ReturnsNothing == [undefined |-> TRUE]
ReturnsValue(v) == [value |-> v]

\* addPending: (payload: CreateSeizurePayload) => void.  The callback has no
\* return statement: the localId it built stays inside it.
addPendingReturn(localId) == ReturnsNothing

\* addPending(payload)
AddPending(payload, localId) ==
  LET item == newItem(localId, payload)
      next == addPendingNext(items, item)
  IN /\ Len(enqLog) < scope.enq
     /\ scope.lateLoad \/ loadState = "done"
     /\ CanPersist(next)
     /\ items' = next
     /\ writes' = persist(next)
     /\ enqLog' = Append(enqLog, [localId |-> localId, payload |-> payload,
                                  life |-> nRestart])
     /\ UNCHANGED <<scope, isOnline, stored, loadState, loadBuf, passes,
                    callLog, accepted, nRestart,
                 submitLog>>

\* syncAll(): const currentItems = [...items], then the loop up to its first
\* `await createSeizure(item.payload)`; a pass with nothing pending ends at once.
\* The result is <<passes', callLog'>>.
syncAllStart(by) ==
  LET currentItems == items
      j == nextPending(currentItems, 1)
  IN IF j > Len(currentItems)
       THEN <<passes, callLog>>
       ELSE <<Append(passes, [snap |-> currentItems, idx |-> j, by |-> by,
                              called |-> <<j>>, enqAt |-> Len(enqLog)]),
              Append(callLog, callOf(currentItems[j]))>>

\* Bound on the passes suspended at once.
CanStart == nextPending(items, 1) > Len(items) \/ Len(passes) < scope.passes

\* Mutant of NetEvent: the listener syncs on every event (no `if (online)`).
NetEventAlways(isConnected, isInternetReachable) ==
  LET online == onlineOf(isConnected, isInternetReachable)
      by == IF isOnline THEN "repeat" ELSE "transition"
  IN /\ CanStart
     /\ isOnline' = online
     /\ passes' = syncAllStart(by)[1]
     /\ callLog' = syncAllStart(by)[2]
     /\ UNCHANGED <<scope, items, stored, writes, loadState, loadBuf, accepted,
                    enqLog, nRestart, submitLog>>

\* Mutant of NetEvent: the listener syncs when the device goes offline
\* (`if (!online)`).
NetEventInverted(isConnected, isInternetReachable) ==
  LET online == onlineOf(isConnected, isInternetReachable)
      by == IF isOnline THEN "repeat" ELSE "transition"
  IN /\ ~online => CanStart
     /\ isOnline' = online
     /\ passes' = IF ~online THEN syncAllStart(by)[1] ELSE passes
     /\ callLog' = IF ~online THEN syncAllStart(by)[2] ELSE callLog
     /\ UNCHANGED <<scope, items, stored, writes, loadState, loadBuf, accepted,
                    enqLog, nRestart,
                 submitLog>>

\* The NetInfo listener: setIsOnline(online); if (online) void syncAll().
NetEvent(isConnected, isInternetReachable) ==
  LET online == onlineOf(isConnected, isInternetReachable)
      by == IF isOnline THEN "repeat" ELSE "transition"
  IN /\ online => CanStart
     /\ isOnline' = online
     /\ passes' = IF online THEN syncAllStart(by)[1] ELSE passes
     /\ callLog' = IF online THEN syncAllStart(by)[2] ELSE callLog
     /\ UNCHANGED <<scope, items, stored, writes, loadState, loadBuf, accepted,
                    enqLog, nRestart,
                 submitLog>>

\* syncAll called through the context value (manual trigger).
SyncAllCall ==
  /\ CanStart
  /\ passes' = syncAllStart("manual")[1]
  /\ callLog' = syncAllStart("manual")[2]
  /\ UNCHANGED <<scope, items, isOnline, stored, writes, loadState, loadBuf,
                 accepted, enqLog, nRestart,
                 submitLog>>

\* The loop of pass k after createSeizure returned for currentItems[idx]: on to
\* the next pending entry of the snapshot, or the end of the pass.
\* The result is <<passes', callLog'>>.
syncAllResume(k) ==
  LET p == passes[k]
      j == nextPending(p.snap, p.idx + 1)
  IN IF j > Len(p.snap)
       THEN <<RemoveAt(passes, k), callLog>>
       ELSE <<[passes EXCEPT ![k].idx = j, ![k].called = Append(@, j)],
              Append(callLog, callOf(p.snap[j]))>>

\* Mutant of RemoteAccept: markSynced filters the list the pass started with
\* (setItems(currentItems.filter(...))) instead of the latest list.
RemoteAcceptStale(k) ==
  LET item == passes[k].snap[passes[k].idx]
      next == markSyncedNext(passes[k].snap, item.localId)
  IN /\ k \in DOMAIN passes
     /\ CanPersist(next)
     /\ accepted' = Append(accepted, callOf(item))
     /\ items' = next
     /\ writes' = persist(next)
     /\ passes' = syncAllResume(k)[1]
     /\ callLog' = syncAllResume(k)[2]
     /\ UNCHANGED <<scope, isOnline, stored, loadState, loadBuf, enqLog,
                    nRestart,
                 submitLog>>

\* createSeizure resolves for pass k: markSynced(item.localId), then the loop.
RemoteAccept(k) ==
  LET item == passes[k].snap[passes[k].idx]
      next == markSyncedNext(items, item.localId)
  IN /\ k \in DOMAIN passes
     /\ CanPersist(next)
     /\ accepted' = Append(accepted, callOf(item))
     /\ items' = next
     /\ writes' = persist(next)
     /\ passes' = syncAllResume(k)[1]
     /\ callLog' = syncAllResume(k)[2]
     /\ UNCHANGED <<scope, isOnline, stored, loadState, loadBuf, enqLog,
                    nRestart,
                 submitLog>>

\* Mutant of RemoteReject: the try/catch is around the loop, so a rejection
\* ends the pass.
RemoteRejectAbort(k) ==
  LET item == passes[k].snap[passes[k].idx]
      next == markFailedNext(items, item.localId, SyncError)
  IN /\ k \in DOMAIN passes
     /\ CanPersist(next)
     /\ items' = next
     /\ writes' = persist(next)
     /\ passes' = RemoveAt(passes, k)
     /\ callLog' = callLog
     /\ UNCHANGED <<scope, isOnline, stored, loadState, loadBuf, accepted,
                    enqLog, nRestart,
                 submitLog>>

\* Mutant of RemoteReject: a rejected entry is tried again at once (the
\* loop does not move on after a failure).
RemoteRejectRetry(k) ==
  LET item == passes[k].snap[passes[k].idx]
      next == markFailedNext(items, item.localId, SyncError)
  IN /\ k \in DOMAIN passes
     /\ CanPersist(next)
     /\ items' = next
     /\ writes' = persist(next)
     /\ passes' = [passes EXCEPT ![k].called = Append(@, passes[k].idx)]
     /\ callLog' = Append(callLog, callOf(item))
     /\ UNCHANGED <<scope, isOnline, stored, loadState, loadBuf, accepted,
                    enqLog, nRestart, submitLog>>

\* createSeizure rejects for pass k: markFailed(item.localId, "Erreur de
\* synchronisation"), then the loop.
RemoteReject(k) ==
  LET item == passes[k].snap[passes[k].idx]
      next == markFailedNext(items, item.localId, SyncError)
  IN /\ k \in DOMAIN passes
     /\ CanPersist(next)
     /\ items' = next
     /\ writes' = persist(next)
     /\ passes' = syncAllResume(k)[1]
     /\ callLog' = syncAllResume(k)[2]
     /\ UNCHANGED <<scope, isOnline, stored, loadState, loadBuf, accepted,
                    enqLog, nRestart,
                 submitLog>>

\* The record the inspector fills in for the n-th submission of
\* NewSeizureScreen (named apart from the payloads given to addPending).
formPayload(n) == -n

\* NewSeizureScreen.handleSubmit, the form being valid: createSeizure(...)
\* resolves, the success alert is shown and the form is reset.
HandleSubmitCreated ==
  /\ Len(submitLog) < scope.submits
  /\ submitLog' = Append(submitLog, [payload |-> formPayload(Len(submitLog) + 1),
                                     outcome |-> "created"])
  /\ UNCHANGED <<scope, items, isOnline, stored, writes, loadState, loadBuf,
                 passes, callLog, accepted, enqLog, nRestart>>

\* NewSeizureScreen.handleSubmit: createSeizure(...) rejects (no connection,
\* timeout, server error); the catch shows the error alert and nothing else.
HandleSubmitError ==
  /\ Len(submitLog) < scope.submits
  /\ submitLog' = Append(submitLog, [payload |-> formPayload(Len(submitLog) + 1),
                                     outcome |-> "error"])
  /\ UNCHANGED <<scope, items, isOnline, stored, writes, loadState, loadBuf,
                 passes, callLog, accepted, enqLog, nRestart>>

\* The process is killed and started again: the provider mounts with its
\* initial state and calls loadFromStorage; writes still in flight are lost;
\* the Durable Store and the remote keep what they hold.
Restart ==
  /\ nRestart < scope.restarts
  /\ nRestart' = nRestart + 1
  /\ items' = <<>>
  /\ isOnline' = TRUE
  /\ writes' = {}
  /\ loadState' = "reading"
  /\ loadBuf' = Null
  /\ passes' = <<>>
  /\ UNCHANGED <<scope, stored, callLog, accepted, enqLog, submitLog>>

Next ==
  \/ \E w \in writes : WriteLand(w)
  \/ \E w \in writes : WriteFail(w)
  \/ \E text \in CorruptTexts : StorageCorrupt(text)
  \/ LoadRead
  \/ LoadFail
  \/ LoadApply
  \/ \E localId \in localIdChoices(usedIds) :
       AddPending(payloadOf(Len(enqLog) + 1), localId)
  \/ \E c \in ConnVals, r \in ConnVals : NetEvent(c, r)
  \/ SyncAllCall
  \/ \E k \in DOMAIN passes : RemoteAccept(k)
  \/ \E k \in DOMAIN passes : RemoteReject(k)
  \/ Restart
  \/ HandleSubmitCreated
  \/ HandleSubmitError

Spec == Init /\ [][Next]_vars

\* The promises in flight settle (a storage write, the storage read, a remote
\* call); connectivity keeps going offline and coming back online; and the
\* remote, asked for a payload again and again, ends up accepting it.
Fairness ==
  /\ WF_vars(\E w \in writes : WriteLand(w) \/ WriteFail(w))
  /\ WF_vars(LoadRead \/ LoadFail)
  /\ WF_vars(LoadApply)
  /\ WF_vars(\E k \in DOMAIN passes : RemoteAccept(k) \/ RemoteReject(k))
  /\ SF_vars(NetEvent("false", "false"))
  /\ SF_vars(NetEvent("true", "true"))
  /\ \A n \in 1..MaxEnq :
       SF_vars(\E k \in DOMAIN passes :
                 passes[k].snap[passes[k].idx].payload = n /\ RemoteAccept(k))

LiveSpec == Init /\ [][Next]_vars /\ Fairness

\* Only what a pass waits for: each remote call returns or fails, and each
\* storage write settles.
RemoteFairness ==
  /\ WF_vars(\E w \in writes : WriteLand(w) \/ WriteFail(w))
  /\ WF_vars(\E k \in DOMAIN passes : RemoteAccept(k) \/ RemoteReject(k))

RemoteSpec == Init /\ [][Next]_vars /\ RemoteFairness

(* ------------------------ vocabulary of the claims --------------------- *)

\* A step in which syncAll is invoked (by the listener or manually).
SyncAllInvoked ==
  \/ \E c \in ConnVals, r \in ConnVals : onlineOf(c, r) /\ NetEvent(c, r)
  \/ SyncAllCall

\* A step in which pass k gets the result of its remote call.
RemoteReturns(k) == RemoteAccept(k) \/ RemoteReject(k)

\* The position the invoked pass is suspended at after the step of its
\* invocation, Len + 1 if it ended at once.
StartedAt ==
  IF Len(passes') > Len(passes) THEN passes'[Len(passes')].idx
  ELSE Len(items) + 1

\* The position pass k is suspended at after a step in which its remote call
\* returned, Len + 1 if it ended.
ResumedAt(k) ==
  IF Len(passes') = Len(passes) THEN passes'[k].idx
  ELSE Len(passes[k].snap) + 1

\* The payloads in a sequence of entries or of calls.
PayloadsIn(list) == {list[k].payload : k \in DOMAIN list}

\* The number of times the remote accepted payload n.
TimesAccepted(n) == Cardinality({k \in DOMAIN accepted : accepted[k].payload = n})

\* The entry with payload n is in the list with status pending.
PendingIn(list, n) ==
  \E k \in DOMAIN list : list[k].payload = n /\ list[k].status = "pending"

\* The entry with payload n is in the list with status failed.
FailedIn(list, n) ==
  \E k \in DOMAIN list : list[k].payload = n /\ list[k].status = "failed"

\* The localIds in a list of entries.
IdsIn(list) == {list[k].localId : k \in DOMAIN list}

\* The payloads of a sequence of calls, in order.
PayloadSeq(log) == [k \in DOMAIN log |-> log[k].payload]

\* j is the position of the first pending entry of snap after position i, or
\* Len + 1 if there is none.
IsNextPendingAfter(snap, i, j) ==
  /\ j \in (i + 1)..(Len(snap) + 1)
  /\ j <= Len(snap) => snap[j].status = "pending"
  /\ \A m \in (i + 1)..(j - 1) : snap[m].status # "pending"

\* The step makes exactly the remote call for entry j of snap, or none if
\* j is past its end.
CallsExactly(snap, j) ==
  IF j > Len(snap) THEN callLog' = callLog
  ELSE callLog' = Append(callLog, callOf(snap[j]))

(* ------------------------------- claims -------------------------------- *)

\* C1: an entry marked failed is attempted again on the next syncAll: a pass
\* submits every entry of the list it started with whose status is failed, as
\* it does a pending one.  The loop of a pass submits the entry at every
\* position it stops at, so the claim says that it never moves past a failed
\* entry, neither when the pass starts nor after a remote call returns.
C1_RetryFailed ==
  [][ /\ SyncAllInvoked =>
           \A i \in 1..(StartedAt - 1) : items[i].status # "failed"
      /\ \A k \in DOMAIN passes :
           RemoteReturns(k) =>
             \A i \in (passes[k].idx + 1)..(ResumedAt(k) - 1) :
               passes[k].snap[i].status # "failed" ]_vars

\* C2: syncAll is single-flight: in no reachable state are two passes in
\* progress at once.
C2_SingleFlight == Len(passes) <= 1

\* C3: no duplication: the payload of each queue entry is accepted by the
\* remote create-record collaborator at most once.
C3_NoDuplication == \A n \in 1..MaxEnq : TimesAccepted(n) <= 1

\* C4: no data loss: every entry enqueued since the process started is still
\* in the in-memory queue or its payload has been accepted by the remote; an
\* enqueue made before the startup loadFromStorage completes is not dropped
\* when the load result is applied.
C4_NoDataLoss ==
  \A k \in DOMAIN enqLog :
    enqLog[k].life = nRestart =>
      \/ enqLog[k].payload \in PayloadsIn(items)
      \/ enqLog[k].payload \in PayloadsIn(accepted)

C6_SelfHealing ==
  \A n \in 1..MaxEnq : FailedIn(items, n) ~> ~FailedIn(items, n)

\* C7: partial failure isolation: when the remote submission of an entry B of
\* a pass fails, B (if still in the queue) is marked failed with the sync
\* error, nothing leaves the queue, and the pass goes on to submit the next
\* pending entry of its list; when a submission is accepted the entry is
\* removed from the queue in that step of the pass.
C7_FailureIsolation ==
  [][ \A k \in DOMAIN passes :
        LET p == passes[k]
            item == p.snap[p.idx]
        IN /\ RemoteReject(k) =>
                /\ Len(items') = Len(items)
                /\ \A i \in DOMAIN items :
                     items[i].localId = item.localId =>
                       /\ items'[i].status = "failed"
                       /\ items'[i].error = SyncError
                       /\ items'[i].payload = items[i].payload
                /\ IsNextPendingAfter(p.snap, p.idx, ResumedAt(k))
                /\ CallsExactly(p.snap, ResumedAt(k))
           /\ RemoteAccept(k) =>
                /\ item.localId \notin IdsIn(items')
                /\ accepted' = Append(accepted, callOf(item)) ]_vars

\* C7 witness: a pass over A, B, C has ended; B was rejected and is in the
\* queue marked failed, A and C were accepted and are gone.
C7_Witness ==
  /\ passes = <<>>
  /\ PayloadSeq(callLog) = <<1, 2, 3>>
  /\ PayloadSeq(accepted) = <<1, 3>>
  /\ Len(items) = 1
  /\ items[1].payload = 2
  /\ items[1].status = "failed"

\* C8: ordering: a pass submits the pending entries of the list it started
\* with one at a time and in list order: the call it makes when it starts is
\* for the first pending entry, and the call for the next pending entry is
\* made in the step in which the previous call returned, not before.
C8_Ordering ==
  [][ /\ SyncAllInvoked =>
           /\ IsNextPendingAfter(items, 0, StartedAt)
           /\ CallsExactly(items, StartedAt)
      /\ \A k \in DOMAIN passes :
           RemoteReturns(k) =>
             /\ IsNextPendingAfter(passes[k].snap, passes[k].idx, ResumedAt(k))
             /\ CallsExactly(passes[k].snap, ResumedAt(k))
      /\ (~SyncAllInvoked /\ \A k \in DOMAIN passes : ~RemoteReturns(k))
           => callLog' = callLog ]_vars

\* C8 witness: a pass over A, B, C is suspended on the call for C, its third
\* call, after the calls for A and B returned.
C8_Witness ==
  /\ Len(passes) = 1
  /\ Len(passes[1].snap) = 3
  /\ passes[1].idx = 3
  /\ PayloadSeq(callLog) = <<1, 2, 3>>

\* C9: an offline -> online connectivity transition invokes syncAll exactly
\* once: the step starts one pass over the current list (visible when an
\* entry is pending), and nothing else.
C9_TransitionSyncsOnce ==
  [][ \A c \in ConnVals, r \in ConnVals :
        (NetEvent(c, r) /\ ~isOnline /\ onlineOf(c, r)) =>
          /\ isOnline'
          /\ IF pendingCount(items) = 0
               THEN passes' = passes /\ callLog' = callLog
               ELSE /\ Len(passes') = Len(passes) + 1
                    /\ SubSeq(passes', 1, Len(passes)) = passes
                    /\ passes'[Len(passes')].snap = items
                    /\ passes'[Len(passes')].by = "transition"
                    /\ Len(callLog') = Len(callLog) + 1 ]_vars

\* C9 witness: the pass started by an offline -> online transition is in
\* progress.
C9_Witness ==
  /\ isOnline
  /\ \E k \in DOMAIN passes : passes[k].by = "transition"

\* C10: end-to-end scenario (the startup load ended before the first enqueue,
\* no restart, one pass at a time): after three enqueues and no sync
\* pendingCount is 3; once the remote has accepted all three and the pass has
\* finished, pendingCount is 0, the queue is empty and the remote call log is
\* exactly the three payloads in enqueue order.
C10_Scenario ==
  (nRestart = 0 /\ ~scope.lateLoad /\ scope.passes = 1) =>
    /\ (Len(enqLog) = 3 /\ callLog = <<>>) => pendingCount(items) = 3
    /\ (Len(enqLog) = 3 /\ passes = <<>> /\ \A n \in 1..3 : TimesAccepted(n) > 0)
         => /\ pendingCount(items) = 0
            /\ items = <<>>
            /\ PayloadSeq(callLog) = <<1, 2, 3>>

\* C10 witness: three entries were enqueued while offline, the device went
\* online, the pass submitted all three, all were accepted and the pass ended.
C10_Witness ==
  /\ scope.name = "batch"
  /\ isOnline
  /\ Len(enqLog) = 3
  /\ passes = <<>>
  /\ PayloadSeq(accepted) = <<1, 2, 3>>
  /\ PayloadSeq(callLog) = <<1, 2, 3>>
  /\ items = <<>>

\* The entries of a list whose localId is not id, in list order.
Others(list, id) == SelectSeq(list, LAMBDA i : i.localId # id)

\* C11: markSynced is idempotent: for every queue state and every id, the
\* list after markSynced(id) has no entry with that id and keeps every other
\* entry, a second markSynced(id) leaves that list as it is, and markSynced
\* with an id not in the queue changes nothing; the markSynced a pass issues
\* when the remote accepts an entry does exactly this, also when an
\* overlapping pass already issued it for the same id.
C11_MarkSyncedIdempotent ==
  /\ [](\A id \in 0..(MaxEnq + 1) :
          LET once == markSyncedNext(items, id)
              twice == markSyncedNext(once, id)
          IN /\ twice = once
             /\ id \notin IdsIn(once)
             /\ once = Others(items, id)
             /\ id \notin IdsIn(items) => once = items)
  /\ [][ \A k \in DOMAIN passes :
           RemoteAccept(k) =>
             LET id == passes[k].snap[passes[k].idx].localId
             IN /\ id \notin IdsIn(items')
                /\ items' = Others(items, id)
                /\ id \notin IdsIn(items) => items' = items ]_vars

\* C11 witness: two overlapping passes both had the same entry accepted, so
\* markSynced was called twice with its id, and the entry is absent.
C11_Witness ==
  /\ passes = <<>>
  /\ \E n \in 1..MaxEnq :
       /\ TimesAccepted(n) = 2
       /\ n \notin PayloadsIn(items)

\* C12: persisted/in-memory consistency: after any sequence of enqueue,
\* markSynced and markFailed (issued after the startup load, with no restart
\* and no storage fault), once every persistence write that was issued has
\* completed, in whatever order the writes complete, the list in the Durable
\* Store equals the in-memory list.
C12_Consistency ==
  (/\ ~scope.faults /\ ~scope.corrupt /\ ~scope.lateLoad
   /\ nRestart = 0
   /\ enqLog # <<>>
   /\ writes = {})
    => /\ stored # Null
       /\ JSONparse(stored) = items

\* C13: mutations are atomic with respect to each other (no lost update):
\* each of enqueue, markSynced and markFailed is applied to the latest list,
\* also when it is issued while a pass is suspended on a remote call, so that
\* (enqueues made after the startup load, no restart) every enqueued entry is
\* in the list unless a markSynced for its own id removed it, markSynced
\* removes only the entries with its id and markFailed changes only those.
C13_NoLostUpdate ==
  /\ []((~scope.lateLoad /\ nRestart = 0) =>
          \A e \in DOMAIN enqLog :
            \/ enqLog[e].payload \in PayloadsIn(items)
            \/ enqLog[e].localId \in IdsIn(accepted))
  /\ [][ /\ \A id \in localIdChoices(usedIds) :
             AddPending(payloadOf(Len(enqLog) + 1), id) =>
               /\ Len(items') = Len(items) + 1
               /\ SubSeq(items', 1, Len(items)) = items
               /\ items'[Len(items')].payload = payloadOf(Len(enqLog) + 1)
         /\ \A k \in DOMAIN passes :
             LET id == passes[k].snap[passes[k].idx].localId
             IN /\ RemoteAccept(k) => items' = Others(items, id)
                /\ RemoteReject(k) =>
                     /\ Len(items') = Len(items)
                     /\ \A i \in DOMAIN items :
                          IF items[i].localId = id
                            THEN items'[i].status = "failed"
                            ELSE items'[i] = items[i] ]_vars

\* C13 witness: a pass over A, B is suspended on the call for B; C was
\* enqueued after the pass started, A was accepted and removed, and the list
\* holds B and C.
C13_Witness ==
  /\ Len(passes) = 1
  /\ PayloadSeq(passes[1].snap) = <<1, 2>>
  /\ passes[1].idx = 2
  /\ PayloadSeq(accepted) = <<1>>
  /\ PayloadSeq(items) = <<2, 3>>

\* C14: insertion order is preserved: of two entries present in items, the
\* one enqueued earlier comes first (payloads are numbered in enqueue order);
\* enqueue appends at the end, and markSynced and markFailed never reorder
\* the entries that remain.
C14_InsertionOrder ==
  /\ [](\A i \in DOMAIN items : \A j \in DOMAIN items :
          i < j => items[i].payload < items[j].payload)
  /\ [][ /\ \A id \in localIdChoices(usedIds) :
             AddPending(payloadOf(Len(enqLog) + 1), id) =>
               items' = Append(items, newItem(id, payloadOf(Len(enqLog) + 1)))
         /\ \A k \in DOMAIN passes :
             /\ RemoteReject(k) => PayloadSeq(items') = PayloadSeq(items)
             /\ RemoteAccept(k) =>
                  PayloadSeq(items') =
                    PayloadSeq(Others(items, passes[k].snap[passes[k].idx].localId))
       ]_vars

\* C14 witness: of A, B, C enqueued in that order, A was accepted and
\* removed, B was rejected and marked failed, and the list is B, C.
C14_Witness ==
  /\ PayloadSeq(accepted) = <<1>>
  /\ PayloadSeq(items) = <<2, 3>>
  /\ items[1].status = "failed"

\* C15: loadFromStorage replaces the in-memory list with the Durable Store's
\* contents: when it completes, the in-memory list is the list that was read
\* from the store, and the empty list when nothing was stored, whatever the
\* in-memory list held before.
C15_LoadReplaces ==
  [][ (LoadApply /\ loadBuf \notin CorruptTexts) =>
        items' = IF loadBuf = Null THEN <<>> ELSE JSONparse(loadBuf) ]_vars

\* C16: storage corruption on load fails open: when the stored value is
\* corrupt or the storage read fails, loadFromStorage ends without an error
\* and the resulting in-memory queue is the empty queue.
C16_CorruptLoadFailsOpen ==
  [][ (LoadFail \/ (LoadApply /\ loadBuf \in CorruptTexts)) =>
        /\ loadState' = "done"
        /\ items' = <<>> ]_vars

\* Every persistence write issued so far has failed: writes were issued,
\* none is in flight, and the store never received a value.
AllWritesFailed ==
  /\ scope.faults /\ ~scope.corrupt
  /\ nRestart = 0
  /\ enqLog # <<>>
  /\ writes = {}
  /\ stored = Null

\* C17: a failed persistence write is swallowed: the step in which a write
\* fails changes nothing but the set of writes in flight (the in-memory list
\* still holds the result of the mutation, no pass is disturbed), and after
\* failed writes enqueue and syncAll work as always: enqueue appends the new
\* pending entry and issues a write of the new list, an accepted entry is
\* removed and a rejected one is marked failed.
C17_WriteFailureSwallowed ==
  [][ /\ \A w \in writes :
           WriteFail(w) =>
             /\ items' = items
             /\ passes' = passes
             /\ callLog' = callLog
             /\ stored' = stored
             /\ writes' = writes \ {w}
      /\ AllWritesFailed =>
           /\ \A id \in localIdChoices(usedIds) :
                AddPending(payloadOf(Len(enqLog) + 1), id) =>
                  /\ items' = Append(items, newItem(id, payloadOf(Len(enqLog) + 1)))
                  /\ JSONstringify(items') \in writes'
           /\ \A k \in DOMAIN passes :
                /\ RemoteAccept(k) =>
                     passes[k].snap[passes[k].idx].localId \notin IdsIn(items')
                /\ RemoteReject(k) =>
                     \A i \in DOMAIN items' :
                       items'[i].localId = passes[k].snap[passes[k].idx].localId
                         => items'[i].status = "failed" ]_vars

\* C17 witness: every write failed, and still two entries were enqueued, a
\* pass ran, one entry was accepted and removed and the other is in the list.
C17_Witness ==
  /\ AllWritesFailed
  /\ Len(enqLog) = 2
  /\ accepted # <<>>
  /\ Len(items) = 1
  /\ passes = <<>>

\* C18: enqueue(payload) adds exactly one new entry at the end of the
\* in-memory list, with status pending, the given payload and no error,
\* leaves every existing entry unchanged, triggers a persistence write of the
\* new list, and returns the localId it assigned to the new entry.
C18_Enqueue ==
  [][ \A id \in localIdChoices(usedIds) :
        AddPending(payloadOf(Len(enqLog) + 1), id) =>
          /\ Len(items') = Len(items) + 1
          /\ SubSeq(items', 1, Len(items)) = items
          /\ items'[Len(items')].status = "pending"
          /\ items'[Len(items')].payload = payloadOf(Len(enqLog) + 1)
          /\ items'[Len(items')].localId = id
          /\ "error" \notin DOMAIN items'[Len(items')]
          /\ JSONstringify(items') \in writes'
          /\ addPendingReturn(id) = ReturnsValue(id) ]_vars

\* C19: markFailed(localId, error) sets status failed and stores error on the
\* entry with that localId and on no other entry; the localId, payload and
\* position of every entry are unchanged; when no entry has that localId the
\* list is unchanged.  This holds for every queue state, id and error, and
\* for the markFailed a pass issues when the remote rejects an entry.
C19_MarkFailedFrame ==
  /\ [](\A id \in 0..(MaxEnq + 1) : \A error \in {SyncError, Undefined} :
          LET next == markFailedNext(items, id, error)
          IN /\ Len(next) = Len(items)
             /\ \A i \in DOMAIN items :
                  /\ next[i].localId = items[i].localId
                  /\ next[i].payload = items[i].payload
                  /\ IF items[i].localId = id
                       THEN next[i].status = "failed" /\ next[i].error = error
                       ELSE next[i] = items[i]
             /\ id \notin IdsIn(items) => next = items)
  /\ [][ \A k \in DOMAIN passes :
           RemoteReject(k) =>
             LET id == passes[k].snap[passes[k].idx].localId
             IN /\ Len(items') = Len(items)
                /\ \A i \in DOMAIN items :
                     /\ items'[i].localId = items[i].localId
                     /\ items'[i].payload = items[i].payload
                     /\ IF items[i].localId = id
                          THEN /\ items'[i].status = "failed"
                               /\ items'[i].error = SyncError
                          ELSE items'[i] = items[i]
                /\ id \notin IdsIn(items) => items' = items ]_vars

\* C19 witness: of A and B in the list, A was rejected and carries status
\* failed and the error, B is as it was enqueued.
C19_Witness ==
  /\ Len(items) = 2
  /\ items[1].status = "failed"
  /\ items[1].error = SyncError
  /\ items[2] = newItem(items[2].localId, items[2].payload)
  /\ accepted = <<>>

\* C20: status transitions are restricted: within one run of the process
\* (enqueues made after the startup load has ended, all localIds distinct),
\* also with overlapping syncAll passes, in every step each entry stays as it is, goes from pending to failed, or goes
\* from pending to removed because the remote accepted it; so a failed entry
\* stays failed, a pending entry leaves the list only when accepted, an
\* accepted entry is never in the list marked failed, and an entry that was
\* accepted and removed never reappears.
C20_StatusTransitions ==
  [][ (nRestart' = 0 /\ ~scope.lateLoad /\ ~scope.collide) =>
        \A n \in 1..MaxEnq :
          /\ FailedIn(items, n) => FailedIn(items', n)
          /\ (PendingIn(items, n) /\ n \notin PayloadsIn(items'))
               => n \in PayloadsIn(accepted')
          /\ n \in PayloadsIn(accepted') => ~FailedIn(items', n)
          /\ (n \in PayloadsIn(accepted) /\ n \notin PayloadsIn(items))
               => n \notin PayloadsIn(items') ]_vars

\* The statuses of the entries of a list.
StatusesIn(list) == {list[k].status : k \in DOMAIN list}

\* The lists in the Durable Store or on their way to it.
PersistedLists ==
  {JSONparse(t) : t \in {u \in writes \cup {stored} : "json" \in DOMAIN u}}

\* C21: synced entries are not retained: no entry of the in-memory list and
\* no entry of a persisted list (stored, or being written) has status synced.
C21_NoSyncedRetained ==
  /\ "synced" \notin StatusesIn(items)
  /\ \A list \in PersistedLists : "synced" \notin StatusesIn(list)

\* C21 witness: an entry was accepted by the remote, and the write issued by
\* its markSynced has landed: the store holds the list that is left.
C21_Witness ==
  /\ accepted # <<>>
  /\ writes = {}
  /\ items # <<>>
  /\ stored = JSONstringify(items)
  /\ PayloadsIn(accepted) \cap PayloadsIn(items) = {}

\* C22: localId is unique: no two entries in the queue share a localId, and
\* a localId assigned by enqueue is never assigned again to a later entry
\* (also after the earlier entry was removed, or after a restart).
C22_UniqueLocalId ==
  /\ \A i \in DOMAIN items : \A j \in DOMAIN items :
       i # j => items[i].localId # items[j].localId
  /\ \A i \in DOMAIN enqLog : \A j \in DOMAIN enqLog :
       i # j => enqLog[i].localId # enqLog[j].localId

\* Every entry of the list that carries an error has status failed.
ErrorOnlyIfFailed(list) ==
  \A k \in DOMAIN list :
    "error" \in DOMAIN list[k] => list[k].status = "failed"

\* C23: an entry carries an error value only if its status is failed, and
\* every pending entry has no error: in the in-memory list and in every
\* persisted list.
C23_ErrorOnlyWhenFailed ==
  /\ ErrorOnlyIfFailed(items)
  /\ \A k \in DOMAIN items :
       items[k].status = "pending" => "error" \notin DOMAIN items[k]
  /\ \A list \in PersistedLists : ErrorOnlyIfFailed(list)

\* C23 witness: the list holds an entry that was rejected, failed with its
\* error, and a pending entry with none, and the store holds the same list.
C23_Witness ==
  /\ \E i \in DOMAIN items :
       items[i].status = "failed" /\ "error" \in DOMAIN items[i]
  /\ \E j \in DOMAIN items : items[j].status = "pending"
  /\ stored = JSONstringify(items)

\* The positions of the pending entries of a list, up to position upto.
PendingPositions(list, upto) ==
  {i \in 1..upto : i <= Len(list) /\ list[i].status = "pending"}

\* C24: within one syncAll pass the create-record collaborator is called
\* exactly once for each entry that is pending when the pass starts and never
\* twice for the same entry: the positions a pass has called for are
\* strictly increasing and are exactly the pending positions of its list up
\* to the one awaited, and when the pass ends they are all the pending
\* positions of its list.
C24_OncePerPendingEntry ==
  /\ [](\A k \in DOMAIN passes :
          LET p == passes[k]
          IN /\ \A a \in DOMAIN p.called : \A b \in DOMAIN p.called :
                  a < b => p.called[a] < p.called[b]
             /\ {p.called[a] : a \in DOMAIN p.called}
                  = PendingPositions(p.snap, p.idx)
             /\ p.called[Len(p.called)] = p.idx)
  /\ [][ \A k \in DOMAIN passes :
           (RemoteReturns(k) /\ Len(passes') < Len(passes)) =>
             {passes[k].called[a] : a \in DOMAIN passes[k].called}
               = PendingPositions(passes[k].snap, Len(passes[k].snap)) ]_vars

\* C24 witness: a pass over A (failed), B and C (pending) has called the
\* remote for B and then for C, once each, and not for A.
C24_Witness ==
  /\ Len(passes) = 1
  /\ Len(passes[1].snap) = 3
  /\ passes[1].snap[1].status = "failed"
  /\ passes[1].called = <<2, 3>>

\* C25: sync passes start only on a fresh online transition or a manual
\* trigger: a connectivity event that reports online while isOnline was
\* already true starts no pass and makes no remote submission, so every pass
\* was started by an offline -> online transition or by a manual syncAll.
C25_OnlyFreshTransition ==
  /\ [][ \A c \in ConnVals, r \in ConnVals :
           (NetEvent(c, r) /\ isOnline /\ onlineOf(c, r)) =>
             /\ passes' = passes
             /\ callLog' = callLog ]_vars
  /\ [](\A k \in DOMAIN passes : passes[k].by \in {"transition", "manual"})

\* C26: for every connectivity event the online value derived from it is
\* true exactly when both connected and internetReachable are true (false
\* and null/unknown count as false), and after the event isOnline is that
\* value.
C26_OnlineDerivation ==
  /\ [](\A c \in ConnVals, r \in ConnVals :
          onlineOf(c, r) <=> (c = "true" /\ r = "true"))
  /\ [][ \A c \in ConnVals, r \in ConnVals :
           NetEvent(c, r) => (isOnline' <=> (c = "true" /\ r = "true")) ]_vars

\* C26 witness: an event that was not online on both counts was delivered:
\* isOnline is false while entries are pending.
C26_Witness ==
  /\ ~isOnline
  /\ pendingCount(items) > 0
  /\ loadState = "done"

\* C27: at startup isOnline is true, and it stays true until the first
\* connectivity event is delivered: it changes only in a step that delivers a
\* connectivity event (or starts the process again, which sets it to true).
C27_OptimisticStart ==
  /\ isOnline = TRUE
  /\ [][ /\ isOnline' # isOnline =>
             \/ \E c \in ConnVals, r \in ConnVals : NetEvent(c, r)
             \/ Restart
         /\ Restart => isOnline' ]_vars

\* C27 witness: the process was started again after isOnline could have been
\* false: the provider is in its startup state, the load not yet read, and
\* isOnline is true.
C27_Witness ==
  /\ nRestart > 0
  /\ loadState = "reading"
  /\ isOnline
  /\ enqLog # <<>>

\* C28: the Status Surface's pendingCount is the number of entries of items
\* whose status is pending; failed entries are not counted.  (It is a value
\* computed from items at render: computing it is no step of the system.)
C28_PendingCount ==
  /\ pendingCount(items) = Cardinality(PendingPositions(items, Len(items)))
  /\ pendingCount(items) + Cardinality({k \in DOMAIN items :
                                         items[k].status # "pending"})
       = Len(items)

\* C28 witness: the list holds three entries, one of them failed:
\* pendingCount is 2.
C28_Witness ==
  /\ Len(items) = 3
  /\ "failed" \in StatusesIn(items)
  /\ pendingCount(items) = 2

\* C29: when the inspector submits a seizure record and the remote write
\* cannot be made because there is no connectivity, the record is enqueued:
\* after the submission the offline queue holds a pending entry with that
\* payload.
C29_OfflineSubmitEnqueues ==
  [][ (HandleSubmitError /\ ~isOnline) =>
        PendingIn(items', formPayload(Len(submitLog) + 1)) ]_vars

\* The (localId, payload) pairs addPending was called with.
Enqueued == {callOf(enqLog[e]) : e \in DOMAIN enqLog}

\* Every entry of the list that enqueue created (0 is the id of the element
\* of a damaged store) has the payload it was enqueued with.
PayloadsVerbatim(list) ==
  \A k \in DOMAIN list : list[k].localId # 0 => callOf(list[k]) \in Enqueued

\* C30: the payload is resubmitted verbatim: in the in-memory list, in the
\* lists persisted and loaded after a restart and in the list of each pass,
\* every entry has exactly the payload given to enqueue for it, whatever
\* markFailed, syncAll, persistence and loading did in between, and every
\* remote submission carries exactly that payload.
C30_PayloadVerbatim ==
  /\ PayloadsVerbatim(items)
  /\ \A list \in PersistedLists : PayloadsVerbatim(list)
  /\ \A k \in DOMAIN passes : PayloadsVerbatim(passes[k].snap)
  /\ \A c \in DOMAIN callLog : callLog[c] \in Enqueued

\* C30 witness: an entry was submitted and rejected, marked failed and
\* persisted, the process was started again, and the list loaded from the
\* store holds it, failed, with its payload.
C30_Witness ==
  /\ nRestart > 0
  /\ loadState = "done"
  /\ callLog # <<>>
  /\ \E k \in DOMAIN items :
       /\ items[k].status = "failed"
       /\ callOf(items[k]) \in Enqueued
       /\ callOf(items[k]) \in {callLog[c] : c \in DOMAIN callLog}

\* C31: every remote submission made by syncAll is for an entry that is in
\* the queue at the moment of the submission (localIds distinct, enqueues
\* made after the startup load): an entry already removed by markSynced, by
\* an overlapping pass or after the pass captured its list, is never
\* submitted again.
C31_SubmitsOnlyQueued ==
  [][ (~scope.lateLoad /\ ~scope.collide /\ Len(callLog') > Len(callLog)) =>
        callLog'[Len(callLog')].localId \in IdsIn(items') ]_vars

\* C32: the aggregate banner reflects the status surface: it is hidden
\* exactly when isOnline is true and pendingCount is 0, shows the offline
\* message whenever isOnline is false, whatever the count, and shows the
\* pending count when online with pendingCount > 0; a queue holding only
\* failed entries while online shows no banner.
C32_Banner ==
  LET b == NetworkBanner(isOnline, items)
      n == Cardinality(PendingPositions(items, Len(items)))
  IN /\ ~b.shown <=> (isOnline /\ n = 0)
     /\ ~isOnline => (b.shown /\ b.message = "offline")
     /\ (isOnline /\ n > 0) =>
          (b.shown /\ b.message = "syncing" /\ b.count = n)
     /\ (isOnline /\ items # <<>> /\ StatusesIn(items) = {"failed"})
          => ~b.shown

\* C32 witness: online, the queue holds only failed entries, and the banner
\* is hidden.
C32_Witness ==
  /\ isOnline
  /\ Len(items) = 2
  /\ StatusesIn(items) = {"failed"}
  /\ ~NetworkBanner(isOnline, items).shown

\* The payloads pass p has called the remote for so far.
CalledPayloads(p) == {p.snap[p.called[a]].payload : a \in DOMAIN p.called}

\* C33: a pass iterates the list captured when it started (localIds
\* distinct, enqueues made after the startup load): an entry enqueued while
\* the pass is suspended on a remote call is not submitted by that pass, and
\* it is still in the queue with status pending when the pass ends.
C33_SnapshotPass ==
  [][ (~scope.lateLoad /\ ~scope.collide) =>
        \A k \in DOMAIN passes :
          \A e \in DOMAIN enqLog :
            e > passes[k].enqAt =>
              /\ enqLog[e].payload \notin CalledPayloads(passes[k])
              /\ (RemoteReturns(k) /\ Len(passes') < Len(passes))
                   => PendingIn(items', enqLog[e].payload) ]_vars

\* C34: when a syncAll pass runs to completion with no other pass
\* overlapping it, every entry that was pending when the pass started is
\* afterwards absent from the queue or present with status failed: none of
\* them is still pending.
C34_PassResolvesPending ==
  [][ scope.passes = 1 =>
        \A k \in DOMAIN passes :
          (RemoteReturns(k) /\ Len(passes') < Len(passes)) =>
            \A i \in PendingPositions(passes[k].snap, Len(passes[k].snap)) :
              ~PendingIn(items', passes[k].snap[i].payload) ]_vars

\* C35: a connectivity event that reports offline changes only isOnline, to
\* false: it starts no syncAll pass, makes no remote call, and leaves the
\* in-memory list, the persisted list and the writes in flight unchanged.
C35_OfflineEventFrame ==
  [][ \A c \in ConnVals, r \in ConnVals :
        (NetEvent(c, r) /\ ~(c = "true" /\ r = "true")) =>
          /\ isOnline' = FALSE
          /\ passes' = passes
          /\ callLog' = callLog
          /\ accepted' = accepted
          /\ items' = items
          /\ stored' = stored
          /\ writes' = writes ]_vars

\* C35 witness: an offline event arrived while a pass was suspended on a
\* remote call and a write was in flight: the pass, the list and the write
\* are still there.
C35_Witness ==
  /\ ~isOnline
  /\ passes # <<>>
  /\ writes # {}
  /\ pendingCount(items) > 0

\* C36: every syncAll pass terminates, provided each remote call eventually
\* returns or fails: a pass makes at most as many remote calls as there were
\* entries in the list when it started; each return of its remote call ends
\* it or moves it to a later position of that list; nothing else (an
\* enqueue, another pass, a storage event) changes its list or its position;
\* and, the remote calls returning, the passes in progress all end.
C36_PassTerminates ==
  /\ [](\A k \in DOMAIN passes :
          /\ Len(passes[k].called) <= Len(passes[k].snap)
          /\ passes[k].idx \in 1..Len(passes[k].snap))
  /\ [][ \A k \in DOMAIN passes :
           IF RemoteReturns(k)
             THEN \/ Len(passes') = Len(passes) - 1
                  \/ /\ Len(passes') = Len(passes)
                     /\ passes'[k].snap = passes[k].snap
                     /\ passes'[k].idx > passes[k].idx
                     /\ Len(passes'[k].called) = Len(passes[k].called) + 1
             ELSE \/ Restart
                  \/ \E j \in DOMAIN passes' : passes'[j] = passes[k] ]_vars
  /\ (passes # <<>>) ~> (passes = <<>>)

\* C36 witness: a pass over two entries has made its second and last
\* possible call, while another entry was enqueued after it started.
C36_Witness ==
  /\ Len(passes) = 1
  /\ Len(passes[1].snap) = 2
  /\ Len(passes[1].called) = 2
  /\ Len(enqLog) > passes[1].enqAt

====
